---- MODULE Spec2Model ----
(***************************************************************************)
(* Model of the Tencent Cloud Hunyuan SDK client (src/src/client.rs,       *)
(* src/src/models.rs, src/src/signing.rs): ClientBuilder::build, TC3       *)
(* signing, header construction and the action invoker call_action with    *)
(* its response decoding and error mapping.                                *)
(*                                                                         *)
(* Strings of the program are TLA+ strings; byte strings are sequences of  *)
(* numbers 0..255.  SHA-256 is an external primitive: it is modelled by a  *)
(* deterministic 32-byte digest of the same shape (Sha256 below).          *)
(***************************************************************************)
EXTENDS Integers, Sequences, FiniteSets, TLC

(***************************************************************************)
(* Option<T>                                                               *)
(***************************************************************************)
None == [some |-> FALSE]
Some(x) == [some |-> TRUE, v |-> x]
UnwrapOr(o, d) == IF o.some THEN o.v ELSE d

(***************************************************************************)
(* String helpers (str methods used by the client)                         *)
(***************************************************************************)
CharAt(s, i) == SubSeq(s, i, i)

\* &s[a-1..b]: the characters a..b, empty when a > b
Slice(s, a, b) == IF a > b THEN "" ELSE SubSeq(s, a, b)

\* str::find: index of the first occurrence of pat in s, 0 when there is none
Find(s, pat) ==
    LET hits == {i \in 1..(Len(s) - Len(pat) + 1) : SubSeq(s, i, i + Len(pat) - 1) = pat}
    IN  IF hits = {} THEN 0 ELSE CHOOSE i \in hits : \A j \in hits : i <= j

\* str::split_once: the text before and after the first occurrence of pat
SplitOnce(s, pat) ==
    LET i == Find(s, pat)
    IN  IF i = 0 THEN None
        ELSE Some([prefix |-> Slice(s, 1, i - 1),
                   rest   |-> Slice(s, i + Len(pat), Len(s))])

RECURSIVE NatString(_)
NatString(n) ==
    IF n < 10 THEN CharAt("0123456789", n + 1)
    ELSE NatString(n \div 10) \o CharAt("0123456789", (n % 10) + 1)

\* i64::to_string / u16 Display: decimal, no padding, '-' for negatives
DecimalString(n) == IF n < 0 THEN "-" \o NatString(0 - n) ELSE NatString(n)

\* zero-padded decimal of a fixed minimum width (time's default padding)
RECURSIVE ZeroPad(_, _)
ZeroPad(s, width) == IF Len(s) >= width THEN s ELSE ZeroPad("0" \o s, width)

(***************************************************************************)
(* signing.rs: SHA-256 / HMAC-SHA256 / hex                                 *)
(***************************************************************************)
\* the printable ASCII characters in code order, 32 (space) to 95 (_) and
\* 97 (a) to 126 (~)
Printable ==
    " !\"#$%&'()*+,-./0123456789:;<=>?@ABCDEFGHIJKLMNOPQRSTUVWXYZ[\\]^_abcdefghijklmnopqrstuvwxyz{|}~"

CharCode ==
    [c \in {CharAt(Printable, i) : i \in 1..Len(Printable)} \cup {"\n"} |->
        IF c = "\n" THEN 10
        ELSE LET i == CHOOSE j \in 1..Len(Printable) : CharAt(Printable, j) = c
             IN  IF i <= 64 THEN 31 + i ELSE 32 + i]

\* str::as_bytes
AsBytes(s) == [i \in 1..Len(s) |-> CharCode[CharAt(s, i)]]

\* a checksum of bytes[lo..hi] modulo the prime p: the sum of
\* (bytes[i] + 1) * (((i * k) % p) + 1), so that both the bytes and their
\* positions count
RECURSIVE WeightedSum(_, _, _, _, _)
WeightedSum(bytes, lo, hi, k, p) ==
    IF lo > hi THEN 0
    ELSE IF lo = hi THEN ((bytes[lo] + 1) * (((lo * k) % p) + 1)) % p
    ELSE (WeightedSum(bytes, lo, (lo + hi) \div 2, k, p)
          + WeightedSum(bytes, ((lo + hi) \div 2) + 1, hi, k, p)) % p

\* the 32 bytes a pair of checksums is spread over
Digest32(h1, h2) ==
    [k \in 1..32 |->
        CASE k = 1 -> h1 \div 256
          [] k = 2 -> h1 % 256
          [] k = 3 -> h2 \div 256
          [] k = 4 -> h2 % 256
          [] OTHER -> ((h1 + 7) * (k + 3) + (h2 + 11) * (2 * k + 1) + k * k) % 256]

\* Sha256::new / update / finalize: a 32-byte digest of the input bytes
Sha256(bytes) ==
    Digest32((WeightedSum(bytes, 1, Len(bytes), 131, 32749) + Len(bytes)) % 32749,
             WeightedSum(bytes, 1, Len(bytes), 197, 32719))

RECURSIVE HexRange(_, _, _)
HexRange(bytes, lo, hi) ==
    IF lo > hi THEN ""
    ELSE IF lo = hi
         THEN CharAt("0123456789abcdef", (bytes[lo] \div 16) + 1)
              \o CharAt("0123456789abcdef", (bytes[lo] % 16) + 1)
    ELSE HexRange(bytes, lo, (lo + hi) \div 2) \o HexRange(bytes, ((lo + hi) \div 2) + 1, hi)

\* hex::encode: two lowercase hex digits per byte
hex_encode(bytes) == HexRange(bytes, 1, Len(bytes))

sha256_hex(data) == hex_encode(Sha256(AsBytes(data)))

\* HMAC: H((key, opad) || H((key, ipad) || data)), raw bytes
hmac_sha256(key, data) ==
    Sha256(<<92>> \o key \o Sha256(<<54>> \o key \o AsBytes(data)))

hmac_sha256_hex(key, data) == hex_encode(hmac_sha256(key, data))

(***************************************************************************)
(* time: OffsetDateTime::from_unix_timestamp(ts) formatted                 *)
(* "[Year]-[Month]-[Day]" (UTC calendar date, zero-padded)                 *)
(***************************************************************************)
\* The civil date of a day number (days since 1970-01-01), computed in stages:
\* day of era, year of era, day of year, month
CivilDate(y, m, d) == [year |-> IF m <= 2 THEN y + 1 ELSE y, month |-> m, day |-> d]

CivilFromMp(era, yoe, doy, mp) ==
    CivilDate(yoe + era * 400, IF mp < 10 THEN mp + 3 ELSE mp - 9,
              doy - ((153 * mp + 2) \div 5) + 1)

CivilFromDoy(era, yoe, doy) == CivilFromMp(era, yoe, doy, (5 * doy + 2) \div 153)

CivilFromYoe(era, doe, yoe) ==
    CivilFromDoy(era, yoe, doe - (365 * yoe + (yoe \div 4) - (yoe \div 100)))

CivilFromDoe(era, doe) ==
    CivilFromYoe(era, doe,
                 (doe - (doe \div 1460) + (doe \div 36524) - (doe \div 146096)) \div 365)

CivilFromDays(days) ==
    CivilFromDoe((days + 719468) \div 146097, (days + 719468) % 146097)

\* fault: month and day are written without padding
FormatCivilUnpadded(c) ==
    ZeroPad(NatString(c.year), 4) \o "-" \o NatString(c.month) \o "-" \o NatString(c.day)

\* [Year]-[Month]-[Day], each zero-padded
FormatCivil(c) ==
    ZeroPad(NatString(c.year), 4) \o "-" \o ZeroPad(NatString(c.month), 2)
    \o "-" \o ZeroPad(NatString(c.day), 2)

FormatDate(timestamp) == FormatCivil(CivilFromDays(timestamp \div 86400))

(***************************************************************************)
(* serde_json::from_str: JSON text to a JSON value.  Values are records    *)
(* tagged by t: "null", "bool", "num", "str", "arr" (v: sequence of        *)
(* values) and "obj" (v: sequence of members [k, v] in document order,     *)
(* duplicates kept).  Escapes other than \" \\ \/ and exponents are        *)
(* outside the modelled subset and are rejected.                           *)
(***************************************************************************)
ParseFail == [ok |-> FALSE]
ParseOk(v, n) == [ok |-> TRUE, val |-> v, next |-> n]

IsDigit(c) == c \in {"0", "1", "2", "3", "4", "5", "6", "7", "8", "9"}

RECURSIVE SkipWs(_, _)
SkipWs(s, i) == IF i <= Len(s) /\ CharAt(s, i) \in {" ", "\n"} THEN SkipWs(s, i + 1) ELSE i

\* the character at i, "" past the end
Peek(s, i) == IF i <= Len(s) THEN CharAt(s, i) ELSE ""

\* the first index >= i of a quote, a backslash or a line break, 0 if there is
\* none: looked for in windows of doubling width
RECURSIVE NextSpecialIn(_, _, _)
NextSpecialIn(s, i, width) ==
    LET hi == IF i + width - 1 < Len(s) THEN i + width - 1 ELSE Len(s)
        hits == {j \in i..hi : CharAt(s, j) \in {"\"", "\\", "\n"}}
    IN  IF hits # {} THEN CHOOSE j \in hits : \A k \in hits : j <= k
        ELSE IF hi >= Len(s) THEN 0
        ELSE NextSpecialIn(s, hi + 1, width * 2)

\* the string whose opening quote is just before i: its text and the index
\* after its closing quote; j is the next special character
RECURSIVE ScanString(_, _, _)
ScanStringTo(s, i, acc, j) ==
    CASE j = 0 -> ParseFail
      [] CharAt(s, j) = "\"" -> ParseOk(acc \o Slice(s, i, j - 1), j + 1)
      [] CharAt(s, j) = "\n" -> ParseFail
      [] OTHER -> IF Peek(s, j + 1) \in {"\"", "\\", "/"}
                  THEN ScanString(s, j + 2, acc \o Slice(s, i, j - 1) \o Peek(s, j + 1))
                  ELSE ParseFail

ScanString(s, i, acc) == ScanStringTo(s, i, acc, NextSpecialIn(s, i, 8))

RECURSIVE ScanDigits(_, _, _)
ScanDigits(s, i, acc) ==
    IF IsDigit(Peek(s, i)) THEN ScanDigits(s, i + 1, acc * 10 + CharCode[Peek(s, i)] - 48)
    ELSE [n |-> acc, next |-> i]

\* a number whose integer digits int have been read: a fraction may follow
ScanFraction(s, neg, int, frac) ==
    IF frac.next = int.next + 1 THEN ParseFail
    ELSE ParseOk([t |-> "num", int |-> FALSE, neg |-> neg, n |-> int.n], frac.next)

ScanNumberFrom(s, neg, start, int) ==
    IF ~IsDigit(Peek(s, start)) THEN ParseFail
    ELSE IF Peek(s, start) = "0" /\ int.next > start + 1 THEN ParseFail
    ELSE IF Peek(s, int.next) = "." THEN ScanFraction(s, neg, int, ScanDigits(s, int.next + 1, 0))
    ELSE IF Peek(s, int.next) \in {"e", "E"} THEN ParseFail
    ELSE ParseOk([t |-> "num", int |-> TRUE, neg |-> neg, n |-> int.n], int.next)

ScanNumber(s, i) ==
    IF Peek(s, i) = "-" THEN ScanNumberFrom(s, TRUE, i + 1, ScanDigits(s, i + 1, 0))
    ELSE ScanNumberFrom(s, FALSE, i, ScanDigits(s, i, 0))

ScanLiteral(s, i, word, v) ==
    IF i + Len(word) - 1 <= Len(s) /\ SubSeq(s, i, i + Len(word) - 1) = word
    THEN ParseOk(v, i + Len(word))
    ELSE ParseFail

StringValue(str) ==
    IF str.ok THEN ParseOk([t |-> "str", v |-> str.val], str.next) ELSE ParseFail

RECURSIVE ParseValue(_, _)
RECURSIVE ParseElems(_, _, _)
RECURSIVE ParseMembers(_, _, _)

\* the value that starts at i with the character c; j is the index of the
\* first non-blank character after i
ParseValueOf(s, i, c, j) ==
    CASE c = "n"  -> ScanLiteral(s, i, "null", [t |-> "null"])
      [] c = "t"  -> ScanLiteral(s, i, "true", [t |-> "bool", v |-> TRUE])
      [] c = "f"  -> ScanLiteral(s, i, "false", [t |-> "bool", v |-> FALSE])
      [] c = "\"" -> StringValue(ScanString(s, i + 1, ""))
      [] c = "["  -> IF Peek(s, j) = "]" THEN ParseOk([t |-> "arr", v |-> <<>>], j + 1)
                     ELSE ParseElems(s, i + 1, <<>>)
      [] c = "{"  -> IF Peek(s, j) = "}" THEN ParseOk([t |-> "obj", v |-> <<>>], j + 1)
                     ELSE ParseMembers(s, i + 1, <<>>)
      [] c = "-" \/ IsDigit(c) -> ScanNumber(s, i)
      [] OTHER    -> ParseFail

ParseValue(s, i0) ==
    ParseValueOf(s, SkipWs(s, i0), Peek(s, SkipWs(s, i0)), SkipWs(s, SkipWs(s, i0) + 1))

\* after the elements acc of an array, at j: a comma or the closing bracket
ParseElemsNext(s, j, acc) ==
    CASE Peek(s, j) = "," -> ParseElems(s, j + 1, acc)
      [] Peek(s, j) = "]" -> ParseOk([t |-> "arr", v |-> acc], j + 1)
      [] OTHER            -> ParseFail

ParseElem(s, e, acc) ==
    IF e.ok THEN ParseElemsNext(s, SkipWs(s, e.next), Append(acc, e.val)) ELSE ParseFail

ParseElems(s, i, acc) == ParseElem(s, ParseValue(s, i), acc)

\* after the members acc of an object, at j: a comma or the closing brace
ParseMembersNext(s, j, acc) ==
    CASE Peek(s, j) = "," -> ParseMembers(s, j + 1, acc)
      [] Peek(s, j) = "}" -> ParseOk([t |-> "obj", v |-> acc], j + 1)
      [] OTHER            -> ParseFail

ParseMemberValue(s, k, e, acc) ==
    IF e.ok THEN ParseMembersNext(s, SkipWs(s, e.next), Append(acc, [k |-> k, v |-> e.val]))
    ELSE ParseFail

ParseMemberColon(s, k, col, acc) ==
    IF Peek(s, col) = ":" THEN ParseMemberValue(s, k, ParseValue(s, col + 1), acc)
    ELSE ParseFail

ParseMemberKey(s, key, acc) ==
    IF key.ok THEN ParseMemberColon(s, key.val, SkipWs(s, key.next), acc) ELSE ParseFail

ParseMembers(s, i0, acc) ==
    IF Peek(s, SkipWs(s, i0)) = "\""
    THEN ParseMemberKey(s, ScanString(s, SkipWs(s, i0) + 1, ""), acc)
    ELSE ParseFail

\* a whole document: one value, then only whitespace
WholeDocument(text, r) ==
    IF r.ok /\ SkipWs(text, r.next) = Len(text) + 1 THEN [ok |-> TRUE, val |-> r.val]
    ELSE [ok |-> FALSE]

JsonParse(text) == WholeDocument(text, ParseValue(text, 1))

(***************************************************************************)
(* serde derive(Deserialize) for the types of models.rs                    *)
(***************************************************************************)
DeErr == [ok |-> FALSE]
DeOk(x) == [ok |-> TRUE, val |-> x]

MembersNamed(members, name) == SelectSeq(members, LAMBDA m : m.k = name)

\* The values of a struct's fields, by position in names.  From an object:
\* unknown keys are ignored, a repeated known key is an error, a missing key is
\* tagged "absent".  From an array: positional, and the length must match.
StructFields(v, names) ==
    CASE v.t = "obj" ->
           IF \E i \in 1..Len(names) : Len(MembersNamed(v.v, names[i])) > 1 THEN DeErr
           ELSE DeOk([i \in 1..Len(names) |->
                        IF MembersNamed(v.v, names[i]) = <<>> THEN [t |-> "absent"]
                        ELSE MembersNamed(v.v, names[i])[1].v])
      [] v.t = "arr" -> IF Len(v.v) = Len(names) THEN DeOk(v.v) ELSE DeErr
      [] OTHER -> DeErr

\* every result of a tuple of results is Ok
AllOk(results) == \A i \in 1..Len(results) : results[i].ok

\* Option<T>: a missing key or null is None
IsNone(f) == f.t \in {"absent", "null"}

\* Option<T>: anything else must decode as T
SomeOf(r) == IF r.ok THEN DeOk(Some(r.val)) ELSE DeErr

\* Vec<T>: all elements must decode as T
VecOf(results) ==
    IF AllOk(results) THEN DeOk([i \in 1..Len(results) |-> results[i].val]) ELSE DeErr

\* String: a JSON string, nothing else; a missing key is an error
DeString(f) == IF f.t = "str" THEN DeOk(f.v) ELSE DeErr

\* u32: a non-negative integer
DeU32(f) == IF f.t = "num" /\ f.int /\ ~f.neg THEN DeOk(f.n) ELSE DeErr

DeOptString(f) == IF IsNone(f) THEN DeOk(None) ELSE SomeOf(DeString(f))

DeOptU32(f) == IF IsNone(f) THEN DeOk(None) ELSE SomeOf(DeU32(f))

\* models.rs ErrorContent {Code, Message}
ErrorContentOf(r) ==
    IF AllOk(r) THEN DeOk([code |-> r[1].val, message |-> r[2].val]) ELSE DeErr

ErrorContentFields(fs) ==
    IF fs.ok THEN ErrorContentOf(<<DeString(fs.val[1]), DeString(fs.val[2])>>) ELSE DeErr

DeErrorContent(v) == ErrorContentFields(StructFields(v, <<"Code", "Message">>))

DeOptErrorContent(f) == IF IsNone(f) THEN DeOk(None) ELSE SomeOf(DeErrorContent(f))

\* models.rs TencentCloudErrorResponse {RequestId?, Error?}
ErrorResponseOf(r) ==
    IF AllOk(r) THEN DeOk([request_id |-> r[1].val, error |-> r[2].val]) ELSE DeErr

ErrorResponseFields(fs) ==
    IF fs.ok THEN ErrorResponseOf(<<DeOptString(fs.val[1]), DeOptErrorContent(fs.val[2])>>)
    ELSE DeErr

DeTencentCloudErrorResponse(v) ==
    ErrorResponseFields(StructFields(v, <<"RequestId", "Error">>))

\* models.rs ChatChoiceMessage {Role?, Content?}
ChatChoiceMessageOf(r) ==
    IF AllOk(r) THEN DeOk([role |-> r[1].val, content |-> r[2].val]) ELSE DeErr

ChatChoiceMessageFields(fs) ==
    IF fs.ok THEN ChatChoiceMessageOf(<<DeOptString(fs.val[1]), DeOptString(fs.val[2])>>)
    ELSE DeErr

DeChatChoiceMessage(v) == ChatChoiceMessageFields(StructFields(v, <<"Role", "Content">>))

DeOptChatChoiceMessage(f) ==
    IF IsNone(f) THEN DeOk(None) ELSE SomeOf(DeChatChoiceMessage(f))

\* models.rs ChatChoice {Index?, Message?, FinishReason?}
ChatChoiceOf(r) ==
    IF AllOk(r)
    THEN DeOk([index |-> r[1].val, message |-> r[2].val, finish_reason |-> r[3].val])
    ELSE DeErr

ChatChoiceFields(fs) ==
    IF fs.ok
    THEN ChatChoiceOf(<<DeOptU32(fs.val[1]), DeOptChatChoiceMessage(fs.val[2]),
                        DeOptString(fs.val[3])>>)
    ELSE DeErr

DeChatChoice(v) == ChatChoiceFields(StructFields(v, <<"Index", "Message", "FinishReason">>))

\* Option<Vec<ChatChoice>>
DeChoices(f) ==
    IF f.t = "arr" THEN VecOf([i \in 1..Len(f.v) |-> DeChatChoice(f.v[i])]) ELSE DeErr

DeOptChoices(f) == IF IsNone(f) THEN DeOk(None) ELSE SomeOf(DeChoices(f))

\* models.rs Usage {PromptTokens?, CompletionTokens?, TotalTokens?}
UsageOf(r) ==
    IF AllOk(r)
    THEN DeOk([prompt_tokens |-> r[1].val, completion_tokens |-> r[2].val,
               total_tokens |-> r[3].val])
    ELSE DeErr

UsageFields(fs) ==
    IF fs.ok THEN UsageOf(<<DeOptU32(fs.val[1]), DeOptU32(fs.val[2]), DeOptU32(fs.val[3])>>)
    ELSE DeErr

DeUsage(v) ==
    UsageFields(StructFields(v, <<"PromptTokens", "CompletionTokens", "TotalTokens">>))

DeOptUsage(f) == IF IsNone(f) THEN DeOk(None) ELSE SomeOf(DeUsage(f))

\* models.rs ChatCompletionsResponseInner {RequestId?, Id?, Choices?, Usage?}
ResponseInnerOf(r) ==
    IF AllOk(r)
    THEN DeOk([request_id |-> r[1].val, id |-> r[2].val, choices |-> r[3].val,
               usage |-> r[4].val])
    ELSE DeErr

ResponseInnerFields(fs) ==
    IF fs.ok
    THEN ResponseInnerOf(<<DeOptString(fs.val[1]), DeOptString(fs.val[2]),
                           DeOptChoices(fs.val[3]), DeOptUsage(fs.val[4])>>)
    ELSE DeErr

DeChatCompletionsResponseInner(v) ==
    ResponseInnerFields(StructFields(v, <<"RequestId", "Id", "Choices", "Usage">>))

\* models.rs TencentCloudResponse<T> {Response: T}, T = ChatCompletionsResponseInner;
\* the Response key must be there
ResponseOf(inner) == IF inner.ok THEN DeOk([response |-> inner.val]) ELSE DeErr

ResponseFields(fs) ==
    IF fs.ok /\ fs.val[1].t # "absent"
    THEN ResponseOf(DeChatCompletionsResponseInner(fs.val[1]))
    ELSE DeErr

DeChatCompletionsResponse(v) == ResponseFields(StructFields(v, <<"Response">>))

\* serde_json::from_str::<TencentCloudErrorResponse>
ErrorResponseDocument(parsed) ==
    IF parsed.ok THEN DeTencentCloudErrorResponse(parsed.val) ELSE DeErr

FromStrErrorResponse(text) == ErrorResponseDocument(JsonParse(text))

\* serde_json::from_str::<ChatCompletionsResponse>
ChatCompletionsResponseDocument(parsed) ==
    IF parsed.ok THEN DeChatCompletionsResponse(parsed.val) ELSE DeErr

FromStrChatCompletionsResponse(text) == ChatCompletionsResponseDocument(JsonParse(text))

(***************************************************************************)
(* serde derive(Serialize): serde_json::to_string of a request             *)
(***************************************************************************)
RECURSIVE EscapeRange(_, _, _)
EscapeRange(s, lo, hi) ==
    IF lo > hi THEN ""
    ELSE IF lo = hi
         THEN CASE CharAt(s, lo) = "\"" -> "\\\""
                [] CharAt(s, lo) = "\\" -> "\\\\"
                [] CharAt(s, lo) = "\n" -> "\\n"
                [] OTHER -> CharAt(s, lo)
    ELSE EscapeRange(s, lo, (lo + hi) \div 2) \o EscapeRange(s, ((lo + hi) \div 2) + 1, hi)

\* a string as a quoted JSON string (also the {:?} form of a str)
Quote(s) == "\"" \o EscapeRange(s, 1, Len(s)) \o "\""

SerOptString(o) == IF o.some THEN Quote(o.v) ELSE "null"

\* Option<f32>, a finite float being given by its shortest decimal form
SerOptF32(o) == IF o.some THEN o.v ELSE "null"

\* models.rs Message {Role, Content}
SerMessage(m) == "{\"Role\":" \o Quote(m.role) \o ",\"Content\":" \o Quote(m.content) \o "}"

RECURSIVE SerMessagesFrom(_, _)
SerMessagesFrom(ms, i) ==
    IF i > Len(ms) THEN ""
    ELSE (IF i > 1 THEN "," ELSE "") \o SerMessage(ms[i]) \o SerMessagesFrom(ms, i + 1)

\* models.rs ChatCompletionsRequest {Model, Messages, Temperature, TopP, Stream}
SerChatCompletionsRequest(r) ==
    "{\"Model\":" \o SerOptString(r.model)
    \o ",\"Messages\":[" \o SerMessagesFrom(r.messages, 1) \o "]"
    \o ",\"Temperature\":" \o SerOptF32(r.temperature)
    \o ",\"TopP\":" \o SerOptF32(r.top_p)
    \o ",\"Stream\":" \o (IF ~r.stream.some THEN "null" ELSE IF r.stream.v THEN "true" ELSE "false")
    \o "}"

\* serde_json::to_string(req) for call_action's TReq: Serialize.  A request
\* is either a ChatCompletionsRequest or a value whose Serialize impl fails.
ToJsonString(req) ==
    IF req.kind = "chat" THEN DeOk(SerChatCompletionsRequest(req.value)) ELSE DeErr

(***************************************************************************)
(* client.rs: constants, Region, Client                                    *)
(***************************************************************************)
SERVICE == "hunyuan"
VERSION == "2023-09-01"
ACTION_CHAT_COMPLETIONS == "ChatCompletions"

\* Region::as_str
Region_as_str(region) ==
    CASE region.tag = "ApBeijing"   -> "ap-beijing"
      [] region.tag = "ApGuangzhou" -> "ap-guangzhou"
      [] region.tag = "Custom"      -> region.s

\* mask, as declared inside tc3_sign
Keep == 8

mask(v) ==
    IF Len(v) <= Keep * 2 THEN "***"
    ELSE SubSeq(v, 1, Keep) \o "..." \o SubSeq(v, Len(v) - Keep + 1, Len(v))

\* mask, as declared again inside call_action
call_action_mask(v) ==
    IF Len(v) <= 8 * 2 THEN "***"
    ELSE SubSeq(v, 1, 8) \o "..." \o SubSeq(v, Len(v) - 8 + 1, Len(v))

\* tc3_sign, "3. Signature": the chain of keyed digests from the secret key
SignatureOf(self, date, string_to_sign) ==
    hmac_sha256_hex(
        hmac_sha256(
            hmac_sha256(
                hmac_sha256(AsBytes("TC3" \o self.credential.secret_key), date),
                SERVICE),
            "tc3_request"),
        string_to_sign)

\* tc3_sign from the signature on.  It returns (signature, credential_scope);
\* log is the record it writes to stderr when debug is on, and date and string_to_sign are its locals, kept so
\* that properties can refer to them.
Tc3Signed(self, date, credential_scope, hashed_canonical_request, string_to_sign, signature) ==
    [signature |-> signature,
     credential_scope |-> credential_scope,
     date |-> date,
     string_to_sign |-> string_to_sign,
     log |-> IF self.debug
             THEN <<"[hunyuan-sdk][tc3_sign] scope=" \o credential_scope
                    \o " hashed_canonical_request=" \o hashed_canonical_request
                    \o " string_to_sign_sha256=" \o sha256_hex(string_to_sign)
                    \o " signature=" \o mask(signature)>>
             ELSE <<>>]

Tc3StringToSign(self, date, credential_scope, hashed_canonical_request, string_to_sign) ==
    Tc3Signed(self, date, credential_scope, hashed_canonical_request, string_to_sign,
              SignatureOf(self, date, string_to_sign))

\* tc3_sign, "2. String to sign"
Tc3Scope(self, timestamp, date, credential_scope, hashed_canonical_request) ==
    Tc3StringToSign(self, date, credential_scope, hashed_canonical_request,
                    "TC3-HMAC-SHA256\n" \o DecimalString(timestamp) \o "\n"
                    \o credential_scope \o "\n" \o hashed_canonical_request)

Tc3Dated(self, timestamp, hashed_canonical_request, date) ==
    Tc3Scope(self, timestamp, date, date \o "/" \o SERVICE \o "/tc3_request",
             hashed_canonical_request)

\* Client::tc3_sign, "1. Canonical request" and on
tc3_sign(self, method, canonical_uri, canonical_querystring, canonical_headers, signed_headers, hashed_payload, timestamp) ==
    Tc3Dated(self, timestamp,
             sha256_hex(method \o "\n" \o canonical_uri \o "\n" \o canonical_querystring
                        \o "\n" \o canonical_headers \o "\n" \o signed_headers \o "\n"
                        \o hashed_payload),
             FormatDate(timestamp))

\* HeaderMap::insert
Insert(headers, name, value) == (name :> value) @@ headers

\* HeaderMap::get(name).and_then(to_str).unwrap_or("")
GetOrEmpty(headers, name) == IF name \in DOMAIN headers THEN headers[name] ELSE ""

\* build_headers: the headers every request carries
BaseHeaders(self, action, timestamp) ==
    [n \in {"Host", "Content-Type", "X-TC-Action", "X-TC-Version", "X-TC-Region",
            "X-TC-Timestamp"} |->
        CASE n = "Host"           -> self.endpoint
          [] n = "Content-Type"   -> "application/json; charset=utf-8"
          [] n = "X-TC-Action"    -> action
          [] n = "X-TC-Version"   -> VERSION
          [] n = "X-TC-Region"    -> Region_as_str(self.region)
          [] n = "X-TC-Timestamp" -> DecimalString(timestamp)]

\* fault: the token header is inserted whether or not there is a token
build_headers_token_always(self, action, json_body, timestamp) ==
    Insert(BaseHeaders(self, action, timestamp), "X-TC-Token",
           UnwrapOr(self.credential.token, ""))

\* Client::build_headers
build_headers(self, action, json_body, timestamp) ==
    IF self.credential.token.some
    THEN Insert(BaseHeaders(self, action, timestamp), "X-TC-Token", self.credential.token.v)
    ELSE BaseHeaders(self, action, timestamp)

\* fault: the canonical form names the default host whatever the endpoint is
CanonicalHeadersDefaultHost(host) ==
    "content-type:application/json; charset=utf-8\nhost:" \o SERVICE
    \o ".tencentcloudapi.com\n"

\* call_action, "Headers for signing": the canonical form of the two signed headers
CanonicalHeaders(host) ==
    "content-type:application/json; charset=utf-8\nhost:" \o host \o "\n"

\* call_action: what it hands to tc3_sign and what it gets back
SigningOf(canonical_headers, signed_headers, hashed_payload, timestamp, signed) ==
    [canonical_headers |-> canonical_headers,
     signed_headers |-> signed_headers,
     hashed_payload |-> hashed_payload,
     timestamp |-> timestamp,
     signature |-> signed.signature,
     credential_scope |-> signed.credential_scope,
     date |-> signed.date,
     string_to_sign |-> signed.string_to_sign,
     log |-> signed.log]

SigningWith(self, canonical_headers, signed_headers, hashed_payload, timestamp) ==
    SigningOf(canonical_headers, signed_headers, hashed_payload, timestamp,
              tc3_sign(self, "POST", "/", "", canonical_headers, signed_headers,
                       hashed_payload, timestamp))

Signing(self, body, timestamp) ==
    SigningWith(self, CanonicalHeaders(self.endpoint), "content-type;host",
                sha256_hex(body), timestamp)

\* call_action: the Authorization header value
Authorization(self, credential_scope, signed_headers, signature) ==
    "TC3-HMAC-SHA256 Credential=" \o self.credential.secret_id \o "/" \o credential_scope
    \o ", SignedHeaders=" \o signed_headers \o ", Signature=" \o signature

\* call_action: the URL the request is posted to
Url(self) == "https://" \o self.endpoint \o "/"

\* call_action: the Authorization value as the request-headers record shows it
MaskSignature(v, parts) ==
    IF parts.some THEN parts.v.prefix \o "Signature=" \o call_action_mask(parts.v.rest)
    ELSE call_action_mask(v)

AuthMasked(headers) ==
    IF "Authorization" \notin DOMAIN headers THEN "<missing>"
    ELSE MaskSignature(headers["Authorization"],
                       SplitOnce(headers["Authorization"], "Signature="))

\* call_action: the records written before the request is sent
RequestLog(self, action, url, headers, body) ==
    IF self.debug
    THEN << "[hunyuan-sdk][request] action=" \o action \o " url=" \o url
            \o " region=" \o Region_as_str(self.region)
            \o " token_present=" \o (IF "X-TC-Token" \in DOMAIN headers THEN "true" ELSE "false"),
            "[hunyuan-sdk][request-headers] Host=" \o GetOrEmpty(headers, "Host")
            \o " Content-Type=" \o GetOrEmpty(headers, "Content-Type")
            \o " X-TC-Action=" \o GetOrEmpty(headers, "X-TC-Action")
            \o " X-TC-Version=" \o GetOrEmpty(headers, "X-TC-Version")
            \o " X-TC-Region=" \o GetOrEmpty(headers, "X-TC-Region")
            \o " X-TC-Timestamp=" \o GetOrEmpty(headers, "X-TC-Timestamp")
            \o " Authorization=" \o AuthMasked(headers),
            "[hunyuan-sdk][request-body] " \o body >>
    ELSE <<>>

\* fault: only 200 counts as success
is_success_200_only(status) == status = 200

\* StatusCode::is_success
is_success(status) == 200 <= status /\ status <= 299

\* SdkError and the Ok result of call_action
OkResult(value) == [kind |-> "Ok", value |-> value]
HttpError(e) == [kind |-> "Http", error |-> e]
SerdeError == [kind |-> "Serde"]
ServiceError(code, message, request_id) ==
    [kind |-> "Service", code |-> code, message |-> message, request_id |-> request_id]

\* fault: the vendor error is reported without its request id
VendorErrorOutcomeNoRequestId(self, status, e, request_id) ==
    [result |-> ServiceError(e.code, e.message, None),
     envelope_decoded |-> TRUE,
     log |-> <<>>]

\* call_action, non-2xx status, the envelope decoded with its Error present
VendorErrorOutcome(self, status, e, request_id) ==
    [result |-> ServiceError(e.code, e.message, request_id),
     envelope_decoded |-> TRUE,
     log |-> IF self.debug
             THEN <<"[hunyuan-sdk][response][error] status=" \o DecimalString(status)
                    \o " code=" \o e.code \o " message=" \o e.message
                    \o " request_id="
                    \o (IF request_id.some THEN "Some(" \o Quote(request_id.v) \o ")"
                        ELSE "None")>>
             ELSE <<>>]

\* fault: the synthesized error carries the status text instead of the body
HttpStatusOutcomeNoBody(self, status, text) ==
    [result |-> ServiceError("HTTP_" \o DecimalString(status), DecimalString(status), None),
     envelope_decoded |-> TRUE,
     log |-> <<>>]

\* call_action, non-2xx status, no vendor error to report
HttpStatusOutcome(self, status, text) ==
    [result |-> ServiceError("HTTP_" \o DecimalString(status), text, None),
     envelope_decoded |-> TRUE,
     log |-> IF self.debug
             THEN <<"[hunyuan-sdk][response][error] status=" \o DecimalString(status)
                    \o " body=" \o text>>
             ELSE <<>>]

\* fault: the vendor error is returned from inside the debug block only
ErrorOutcomeDebugOnly(self, status, text, err) ==
    IF self.debug /\ err.ok /\ err.val.error.some
    THEN [result |-> ServiceError(err.val.error.v.code, err.val.error.v.message,
                                  err.val.request_id),
          envelope_decoded |-> TRUE, log |-> <<>>]
    ELSE [result |-> ServiceError("HTTP_" \o DecimalString(status), text, None),
          envelope_decoded |-> TRUE, log |-> <<>>]

\* call_action, non-2xx status: err is the outcome of decoding the envelope
ErrorOutcome(self, status, text, err) ==
    IF err.ok /\ err.val.error.some
    THEN VendorErrorOutcome(self, status, err.val.error.v, err.val.request_id)
    ELSE HttpStatusOutcome(self, status, text)

\* call_action, 2xx status: parsed is the outcome of decoding TResp
SuccessOutcome(parsed) ==
    [result |-> IF parsed.ok THEN OkResult(parsed.val) ELSE SerdeError,
     envelope_decoded |-> FALSE,
     log |-> <<>>]

\* fault: a body that holds an Error member is handled as an error whatever
\* the status is
StatusOutcomeByBody(self, status, text) ==
    IF ~is_success(status) \/ Find(text, "\"Error\"") # 0
    THEN ErrorOutcome(self, status, text, FromStrErrorResponse(text))
    ELSE SuccessOutcome(FromStrChatCompletionsResponse(text))

\* call_action from the status test to the end
StatusOutcome(self, status, text) ==
    IF ~is_success(status) THEN ErrorOutcome(self, status, text, FromStrErrorResponse(text))
    ELSE SuccessOutcome(FromStrChatCompletionsResponse(text))

\* call_action from the response record to the end: the result, the records
\* written, and whether the error envelope was decoded on the way
HandleResponse(self, status, text) ==
    [StatusOutcome(self, status, text) EXCEPT
        !.log = (IF self.debug
                 THEN <<"[hunyuan-sdk][response] status=" \o DecimalString(status)
                        \o " body=" \o text>>
                 ELSE <<>>) \o @]

(***************************************************************************)
(* The values the builder, the callers, the clock and the transport supply *)
(***************************************************************************)
Credentials ==
    { [secret_id |-> "test_id", secret_key |-> "test_key", token |-> None],
      [secret_id |-> "test_id", secret_key |-> "test_key", token |-> Some("test_token")] }

\* values of the TENCENTCLOUD_SDK_DEBUG environment variable (None: unset)
EnvValues == { None, Some("true"), Some("0") }

HelloRequest ==
    [kind |-> "chat",
     value |-> [model |-> Some("hunyuan-lite"),
                messages |-> <<[role |-> "user", content |-> "Hello, Hunyuan!"]>>,
                temperature |-> Some("0.7"), top_p |-> None,
                stream |-> Some(FALSE)]]

\* a request whose Serialize implementation reports an error
UnserializableRequest == [kind |-> "other"]

Requests == { HelloRequest, UnserializableRequest }

\* the wall clock when the program starts: the last second of 2024-02-29 (UTC)
ClockStart == 1709251199

\* how many seconds the clock advances at most
MaxTicks == 1

\* the wall clock's reading after n seconds
ClockTime(n) == ClockStart + n

SuccessBody ==
    "{\"Response\":{\"RequestId\":\"r1\",\"Id\":\"id1\",\"Choices\":[{\"Index\":0,\"Message\":{\"Role\":\"assistant\",\"Content\":\"Hi\"},\"FinishReason\":\"stop\"}],\"Usage\":{\"PromptTokens\":5,\"CompletionTokens\":2,\"TotalTokens\":7}}}"

\* the error body of the vendor's wire format, the error inside "Response"
WrappedErrorBody ==
    "{\"Response\":{\"Error\":{\"Code\":\"AuthFailure.SignatureFailure\",\"Message\":\"bad sig\"},\"RequestId\":\"r2\"}}"

\* bodies of the shape of TencentCloudErrorResponse itself
FlatErrorBody ==
    "{\"RequestId\":\"r3\",\"Error\":{\"Code\":\"LimitExceeded\",\"Message\":\"too many\"}}"

FlatErrorNoIdBody == "{\"Error\":{\"Code\":\"InternalError\",\"Message\":\"oops\"}}"

NoErrorBody == "{\"RequestId\":\"r5\"}"

HalfErrorBody == "{\"RequestId\":\"r6\",\"Error\":{\"Code\":\"OnlyCode\"}}"

Bodies ==
    { SuccessBody, WrappedErrorBody, FlatErrorBody, FlatErrorNoIdBody, NoErrorBody,
      HalfErrorBody, "internal error", "" }

\* what the transport does with one request: it fails to send, or it returns a
\* status and then either the body or a failure while the body is read
TransportOutcomes ==
    { [sent |-> FALSE, error |-> "connect"] }
    \cup { [sent |-> TRUE, status |-> st, read |-> TRUE, body |-> b] :
             st \in {200, 204, 302, 401, 500}, b \in Bodies }
    \cup { [sent |-> TRUE, status |-> st, read |-> FALSE, error |-> "body"] :
             st \in {200, 204, 302, 401, 500} }

Callers == { "c1" }

(***************************************************************************)
(* State                                                                   *)
(***************************************************************************)
VARIABLES
    env_debug,  \* the TENCENTCLOUD_SDK_DEBUG environment variable
    builder,    \* the ClientBuilder's fields, each an Option
    phase,      \* "building", "panicked" (build panicked) or "built"
    client,     \* None, or Some(Client) once build has returned
    now,        \* the seconds the wall clock has advanced since the start
    calls       \* per caller: the locals of its call_action invocation

vars == <<env_debug, builder, phase, client, now, calls>>

\* ClientBuilder::default
ClientBuilderDefault ==
    [credential |-> None, region |-> None, endpoint |-> None, debug |-> None]

\* the locals of an invocation that has not started
IdleCall ==
    [pc |-> "idle", req |-> None, body |-> "", timestamp |-> 0, clock_reads |-> 0,
     headers |-> <<>>, signing |-> None, url |-> "", posts |-> <<>>, response |-> None,
     status |-> 0, text |-> "", envelope_decoded |-> FALSE, result |-> [kind |-> "none"],
     log |-> <<>>]

Init ==
    /\ env_debug \in EnvValues
    /\ builder = ClientBuilderDefault
    /\ phase = "building"
    /\ client = None
    /\ now = 0
    /\ calls = [c \in Callers |-> IdleCall]

(***************************************************************************)
(* ClientBuilder                                                           *)
(***************************************************************************)
\* ClientBuilder::credential
SetCredential(credential) ==
    /\ phase = "building"
    /\ builder' = [builder EXCEPT !.credential = Some(credential)]
    /\ UNCHANGED <<env_debug, phase, client, now, calls>>

\* ClientBuilder::region
SetRegion(region) ==
    /\ phase = "building"
    /\ builder' = [builder EXCEPT !.region = Some(region)]
    /\ UNCHANGED <<env_debug, phase, client, now, calls>>

\* ClientBuilder::endpoint
SetEndpoint(endpoint) ==
    /\ phase = "building"
    /\ builder' = [builder EXCEPT !.endpoint = Some(endpoint)]
    /\ UNCHANGED <<env_debug, phase, client, now, calls>>

\* ClientBuilder::debug
SetDebug(debug) ==
    /\ phase = "building"
    /\ builder' = [builder EXCEPT !.debug = Some(debug)]
    /\ UNCHANGED <<env_debug, phase, client, now, calls>>

\* the match on env::var("TENCENTCLOUD_SDK_DEBUG") in build
EnvDebug(value) ==
    value.some /\ value.v \in {"1", "true", "TRUE", "on", "ON"}

\* fault: a missing credential is replaced by an empty one
BuildClientEmptyCredential(b, env) ==
    Some([credential |-> UnwrapOr(b.credential,
                                  [secret_id |-> "", secret_key |-> "", token |-> None]),
          region |-> UnwrapOr(b.region, [tag |-> "ApGuangzhou"]),
          endpoint |-> UnwrapOr(b.endpoint, SERVICE \o ".tencentcloudapi.com"),
          debug |-> UnwrapOr(b.debug, EnvDebug(env))])

\* fault: the environment variable, when set, wins over the explicit value
BuildClientEnvWins(b, env) ==
    IF ~b.credential.some THEN None
    ELSE Some([credential |-> b.credential.v,
               region |-> UnwrapOr(b.region, [tag |-> "ApGuangzhou"]),
               endpoint |-> UnwrapOr(b.endpoint, SERVICE \o ".tencentcloudapi.com"),
               debug |-> IF env.some THEN EnvDebug(env) ELSE UnwrapOr(b.debug, FALSE)])

\* ClientBuilder::build: the Client it returns, None when it panics
BuildClient(b, env) ==
    IF ~b.credential.some THEN None
    ELSE Some([credential |-> b.credential.v,
               region |-> UnwrapOr(b.region, [tag |-> "ApGuangzhou"]),
               endpoint |-> UnwrapOr(b.endpoint, SERVICE \o ".tencentcloudapi.com"),
               debug |-> UnwrapOr(b.debug, EnvDebug(env))])

\* ClientBuilder::build consumes the builder
Build ==
    /\ phase = "building"
    /\ client' = BuildClient(builder, env_debug)
    /\ phase' = IF client'.some THEN "built" ELSE "panicked"
    /\ builder' = ClientBuilderDefault
    /\ UNCHANGED <<env_debug, now, calls>>

(***************************************************************************)
(* The wall clock                                                          *)
(***************************************************************************)
Tick ==
    /\ now < MaxTicks
    /\ now' = now + 1
    /\ UNCHANGED <<env_debug, builder, phase, client, calls>>

(***************************************************************************)
(* Client::call_action, as chat_completions calls it, step by step         *)
(***************************************************************************)
\* fault: a serialization failure is ignored and an empty body goes on
SerializedAnyway(req, body) ==
    [IdleCall EXCEPT !.pc = "serialized", !.req = Some(req),
                     !.body = IF body.ok THEN body.val ELSE ""]

\* the locals after serde_json::to_string(req)?
Serialized(req, body) ==
    IF body.ok
    THEN [IdleCall EXCEPT !.pc = "serialized", !.req = Some(req), !.body = body.val]
    ELSE [IdleCall EXCEPT !.pc = "done", !.req = Some(req), !.result = SerdeError]

\* serde_json::to_string(req)?
Serialize(c, req) ==
    /\ client.some
    /\ calls[c].pc = "idle"
    /\ calls' = [calls EXCEPT ![c] = Serialized(req, ToJsonString(req))]
    /\ UNCHANGED <<env_debug, builder, phase, client, now>>

\* OffsetDateTime::now_utc().unix_timestamp(), then build_headers
CaptureTimestamp(c) ==
    /\ calls[c].pc = "serialized"
    /\ calls' = [calls EXCEPT ![c].pc = "stamped",
                               ![c].timestamp = ClockTime(now),
                               ![c].clock_reads = @ + 1,
                               ![c].headers = build_headers(client.v, ACTION_CHAT_COMPLETIONS,
                                                            calls[c].body, ClockTime(now))]
    /\ UNCHANGED <<env_debug, builder, phase, client, now>>

\* fault: the timestamp lives in a field the clones share, the latest one
\* captured by any of them
SigningTimeShared(c) ==
    CHOOSE t \in { calls[d].timestamp : d \in DOMAIN calls } :
        \A d \in DOMAIN calls : calls[d].timestamp <= t

\* fault: the clock is read again for the signature
SigningTimeFromClock(c) == ClockTime(now)

\* the timestamp call_action passes to tc3_sign: its local, not the clock
SigningTime(c) == calls[c].timestamp

\* the locals after tc3_sign has returned
Signed(call, signing) ==
    [call EXCEPT !.pc = "signed", !.signing = Some(signing), !.log = @ \o signing.log]

\* canonical headers, payload hash and tc3_sign
Sign(c) ==
    /\ calls[c].pc = "stamped"
    /\ calls' = [calls EXCEPT ![c] =
                    Signed(@, Signing(client.v, calls[c].body, SigningTime(c)))]
    /\ UNCHANGED <<env_debug, builder, phase, client, now>>

\* the locals once the Authorization header is in and the request is logged
Authorized(call, self, headers, url) ==
    [call EXCEPT !.pc = "authorized",
                 !.headers = headers,
                 !.url = url,
                 !.log = @ \o RequestLog(self, ACTION_CHAT_COMPLETIONS, url, headers,
                                         call.body)]

\* the Authorization header, the URL and the request records
Authorize(c) ==
    /\ calls[c].pc = "signed"
    /\ calls' = [calls EXCEPT ![c] =
                    Authorized(@, client.v,
                               Insert(calls[c].headers, "Authorization",
                                      Authorization(client.v,
                                                    calls[c].signing.v.credential_scope,
                                                    calls[c].signing.v.signed_headers,
                                                    calls[c].signing.v.signature)),
                               Url(client.v))]
    /\ UNCHANGED <<env_debug, builder, phase, client, now>>

\* fault: a transport failure sends the request again
AfterTransportErrorRetry == "authorized"

\* where call_action goes when send() or text() fails: `?` returns the error
AfterTransportError == "done"

\* the request as the transport receives it
Post(call) == [url |-> call.url, headers |-> call.headers, body |-> call.body]

\* self.http.post(url).headers(headers).body(body).send().await?
Send(c, outcome) ==
    /\ calls[c].pc = "authorized"
    /\ calls' = [calls EXCEPT ![c] =
                    IF outcome.sent
                    THEN [@ EXCEPT !.pc = "sent", !.posts = Append(@, Post(calls[c])),
                                   !.response = Some(outcome)]
                    ELSE [@ EXCEPT !.pc = AfterTransportError,
                                   !.posts = Append(@, Post(calls[c])),
                                   !.result = HttpError(outcome.error)]]
    /\ UNCHANGED <<env_debug, builder, phase, client, now>>

\* resp.status(); resp.text().await?
ReadBody(c) ==
    /\ calls[c].pc = "sent"
    /\ calls' = [calls EXCEPT ![c] =
                    IF calls[c].response.v.read
                    THEN [@ EXCEPT !.pc = "received",
                                   !.status = calls[c].response.v.status,
                                   !.text = calls[c].response.v.body]
                    ELSE [@ EXCEPT !.pc = AfterTransportError,
                                   !.status = calls[c].response.v.status,
                                   !.result = HttpError(calls[c].response.v.error)]]
    /\ UNCHANGED <<env_debug, builder, phase, client, now>>

\* the locals when call_action returns after the body has been read
Decoded(call, handled) ==
    [call EXCEPT !.pc = "done",
                 !.result = handled.result,
                 !.envelope_decoded = handled.envelope_decoded,
                 !.log = @ \o handled.log]

\* the response record, the error mapping and the decoding
Decode(c) ==
    /\ calls[c].pc = "received"
    /\ calls' = [calls EXCEPT ![c] =
                    Decoded(@, HandleResponse(client.v, calls[c].status, calls[c].text))]
    /\ UNCHANGED <<env_debug, builder, phase, client, now>>

\* the caller takes the result; the client can be called again
Return(c) ==
    /\ calls[c].pc = "done"
    /\ calls' = [calls EXCEPT ![c] = IdleCall]
    /\ UNCHANGED <<env_debug, builder, phase, client, now>>

Next ==
    \/ \E credential \in Credentials : SetCredential(credential)
    \/ \E region \in {[tag |-> "ApBeijing"], [tag |-> "Custom", s |-> "us-west-1"]} : SetRegion(region)
    \/ \E endpoint \in {"custom.endpoint.com"} : SetEndpoint(endpoint)
    \/ \E debug \in BOOLEAN : SetDebug(debug)
    \/ Build
    \/ Tick
    \/ \E c \in Callers, req \in Requests : Serialize(c, req)
    \/ \E c \in Callers : CaptureTimestamp(c)
    \/ \E c \in Callers : Sign(c)
    \/ \E c \in Callers : Authorize(c)
    \/ \E c \in Callers, outcome \in TransportOutcomes : Send(c, outcome)
    \/ \E c \in Callers : ReadBody(c)
    \/ \E c \in Callers : Decode(c)
    \/ \E c \in Callers : Return(c)

Spec == Init /\ [][Next]_vars

(***************************************************************************)
(* A Client and its clone (derive(Clone)), each invoked from its own task  *)
(***************************************************************************)
\* the handles that invoke concurrently: the client and a clone of it
Clones == { "c1", "c2" }

\* what the transport does in the concurrent runs
CloneOutcomes ==
    { [sent |-> FALSE, error |-> "connect"],
      [sent |-> TRUE, status |-> 200, read |-> TRUE, body |-> SuccessBody],
      [sent |-> TRUE, status |-> 401, read |-> TRUE, body |-> FlatErrorBody],
      [sent |-> TRUE, status |-> 500, read |-> FALSE, error |-> "body"] }

\* build has returned a Client and it has been cloned; no call has started
CloneInit ==
    /\ env_debug = None
    /\ builder = ClientBuilderDefault
    /\ phase = "built"
    /\ client \in { BuildClient([ClientBuilderDefault EXCEPT !.credential = Some(credential),
                                                            !.debug = Some(debug)], None) :
                      credential \in Credentials, debug \in BOOLEAN }
    /\ now = 0
    /\ calls = [c \in Clones |-> IdleCall]

\* the steps of the two invocations interleave in every order
CloneNext ==
    \/ Tick
    \/ \E c \in Clones, req \in Requests : Serialize(c, req)
    \/ \E c \in Clones : CaptureTimestamp(c)
    \/ \E c \in Clones : Sign(c)
    \/ \E c \in Clones : Authorize(c)
    \/ \E c \in Clones, outcome \in CloneOutcomes : Send(c, outcome)
    \/ \E c \in Clones : ReadBody(c)
    \/ \E c \in Clones : Decode(c)
    \/ \E c \in Clones : Return(c)

CloneSpec == CloneInit /\ [][CloneNext]_vars

(***************************************************************************)
(* ClientBuilder alone, under every value of TENCENTCLOUD_SDK_DEBUG        *)
(***************************************************************************)
\* the program starts with the variable unset or set to any of these
BuilderInit ==
    /\ env_debug \in { None, Some("1"), Some("true"), Some("TRUE"), Some("on"), Some("ON"),
                       Some("True"), Some("On"), Some("0"), Some("false"), Some("yes"),
                       Some("") }
    /\ builder = ClientBuilderDefault
    /\ phase = "building"
    /\ client = None
    /\ now = 0
    /\ calls = [c \in Callers |-> IdleCall]

\* the builder's setters in any order and any number of times, then build
BuilderNext ==
    \/ \E credential \in Credentials : SetCredential(credential)
    \/ \E region \in {[tag |-> "ApBeijing"], [tag |-> "Custom", s |-> "us-west-1"]} :
          SetRegion(region)
    \/ \E endpoint \in {"custom.endpoint.com"} : SetEndpoint(endpoint)
    \/ \E debug \in BOOLEAN : SetDebug(debug)
    \/ Build

BuilderSpec == BuilderInit /\ [][BuilderNext]_vars

(***************************************************************************)
(* Client::tc3_sign called on its own (lib.rs test_tc3_sign_components)    *)
(***************************************************************************)
\* a Client has been built, with one of several secret keys
Tc3Init ==
    /\ env_debug = None
    /\ builder = ClientBuilderDefault
    /\ phase = "built"
    /\ client \in { BuildClient([ClientBuilderDefault EXCEPT
                                    !.credential = Some([secret_id |-> "test_id",
                                                         secret_key |-> secret_key,
                                                         token |-> None]),
                                    !.debug = Some(debug)], None) :
                      secret_key \in {"test_key", "another_key", ""}, debug \in BOOLEAN }
    /\ now = 0
    /\ calls = [c \in Callers |-> IdleCall]

\* client.tc3_sign("POST", "/", "", canonical_headers, "content-type;host",
\* hashed_payload, timestamp): the result is kept where a call keeps it
Tc3SignCall(c, hashed_payload, timestamp) ==
    /\ client.some
    /\ calls[c].pc = "idle"
    /\ calls' = [calls EXCEPT ![c] =
                    [IdleCall EXCEPT
                        !.pc = "done",
                        !.body = hashed_payload,
                        !.timestamp = timestamp,
                        !.signing = Some(tc3_sign(client.v, "POST", "/", "",
                                                  CanonicalHeaders(client.v.endpoint),
                                                  "content-type;host", hashed_payload,
                                                  timestamp))]]
    /\ UNCHANGED <<env_debug, builder, phase, client, now>>

\* tc3_sign with timestamps from the epoch to the end of the 32-bit range,
\* while the wall clock runs on its own
Tc3Next ==
    \/ Tick
    \/ \E c \in Callers, hashed_payload \in {"test_payload_hash", sha256_hex("{}")},
          timestamp \in {0, 86399, 86400, 68169600, 946598400, 951782400, 951868800,
                         1234567890, 1286668800, 1709251199, 1709251200, 1735689599,
                         1735689600, 2147483647} :
          Tc3SignCall(c, hashed_payload, timestamp)
    \/ \E c \in Callers : Return(c)

Tc3Spec == Tc3Init /\ [][Tc3Next]_vars

(***************************************************************************)
(* Properties                                                              *)
(***************************************************************************)
\* the invocation of caller c has returned after reading a response body
Received(c) ==
    /\ calls[c].pc = "done"
    /\ calls[c].response.some
    /\ calls[c].response.v.read

\* the status is outside 200..299
NonSuccess(status) == status < 200 \/ status > 299

\* the envelope decoded from text carries an Error
Populated(err) == err.ok /\ err.val.error.some

\* C1: a non-2xx response whose body is
\* {"Response":{"Error":{"Code":c,"Message":m},"RequestId":r}} is returned as a
\* service error with code c, message m and request id r (here
\* AuthFailure.SignatureFailure, bad sig, r2).
C1_WrappedErrorSurfaced ==
    \A c \in Callers :
        (Received(c) /\ NonSuccess(calls[c].status) /\ calls[c].text = WrappedErrorBody)
        => calls[c].result =
               ServiceError("AuthFailure.SignatureFailure", "bad sig", Some("r2"))

\* what a populated envelope must be returned as
VendorErrorReturned(result, err) ==
    Populated(err)
    => result = ServiceError(err.val.error.v.code, err.val.error.v.message,
                             err.val.request_id)

\* C2: a non-2xx response whose body decodes as the error envelope with Error
\* present is returned as a service error with exactly that Code, Message and
\* RequestId (None when absent), never as Ok and never as a serialization error.
C2_VendorErrorSurfaced ==
    \A c \in Callers :
        (Received(c) /\ NonSuccess(calls[c].status))
        => /\ VendorErrorReturned(calls[c].result, FromStrErrorResponse(calls[c].text))
           /\ calls[c].text = FlatErrorBody
              => calls[c].result = ServiceError("LimitExceeded", "too many", Some("r3"))
           /\ calls[c].text = FlatErrorNoIdBody
              => calls[c].result = ServiceError("InternalError", "oops", None)

C2_Witness ==
    \E c \in Callers :
        /\ Received(c)
        /\ calls[c].status = 401
        /\ calls[c].text = FlatErrorBody
        /\ calls[c].result.kind = "Service"
        /\ calls[c].result.request_id = Some("r3")

\* what a response without a populated envelope must be returned as
HttpStatusReturned(result, status, text, err) ==
    ~Populated(err) => result = ServiceError("HTTP_" \o ToString(status), text, None)

\* C3: a non-2xx response whose body yields no populated vendor error is
\* returned as a service error with code HTTP_<status>, the raw body as its
\* message and no request id.
C3_HttpStatusError ==
    \A c \in Callers :
        (Received(c) /\ NonSuccess(calls[c].status))
        => /\ HttpStatusReturned(calls[c].result, calls[c].status, calls[c].text,
                                 FromStrErrorResponse(calls[c].text))
           /\ calls[c].text \in {"internal error", "", NoErrorBody, HalfErrorBody}
              => /\ calls[c].result.kind = "Service"
                 /\ calls[c].result.message = calls[c].text
                 /\ calls[c].result.request_id = None
                 /\ calls[c].status = 500 => calls[c].result.code = "HTTP_500"

C3_Witness ==
    \E c \in Callers :
        /\ Received(c)
        /\ calls[c].status = 500
        /\ calls[c].text = "internal error"
        /\ calls[c].result = ServiceError("HTTP_500", "internal error", None)

\* what a 2xx response must be returned as
DecodedReturned(result, parsed) ==
    result = IF parsed.ok THEN OkResult(parsed.val) ELSE SerdeError

\* C4: a 2xx response is decoded as {Response: T}: Ok with the decoded value,
\* or a serialization error; never a service error, and the error envelope is
\* not decoded on this path.
C4_SuccessDecoded ==
    \A c \in Callers :
        (Received(c) /\ ~NonSuccess(calls[c].status))
        => /\ DecodedReturned(calls[c].result, FromStrChatCompletionsResponse(calls[c].text))
           /\ calls[c].result.kind \in {"Ok", "Serde"}
           /\ ~calls[c].envelope_decoded
           /\ calls[c].text = SuccessBody
              => /\ calls[c].result.kind = "Ok"
                 /\ calls[c].result.value.response.id = Some("id1")
           /\ calls[c].text \in {"internal error", "", FlatErrorBody}
              => calls[c].result = SerdeError

C4_Witness ==
    \E c \in Callers :
        /\ Received(c)
        /\ calls[c].status = 204
        /\ calls[c].text = FlatErrorBody
        /\ calls[c].result = SerdeError
        /\ ~calls[c].envelope_decoded

\* pat occurs in s
Contains(s, pat) == Find(s, pat) # 0

\* the only forms a signature may take in a record
MaskedForms(signature) ==
    { "***", SubSeq(signature, 1, 8) \o "..." \o
             SubSeq(signature, Len(signature) - 7, Len(signature)) }

\* a record that neither holds a secret nor the whole signature
Discreet(record, credential, signature) ==
    /\ ~Contains(record, credential.secret_key)
    /\ ~Contains(record, credential.secret_id)
    /\ ~Contains(record, signature)
    /\ Contains(record, "ignature=")
       => \E m \in MaskedForms(signature) : Contains(record, "ignature=" \o m)

\* C5: with debug on, no record written during an invocation contains the
\* secret key, the whole secret id or the whole signature; the signature
\* appears only as its first 8 and last 8 characters around "...", or as "***".
C5_NoSecretInLogs ==
    \A c \in Callers :
        calls[c].signing.some
        => \A i \in 1..Len(calls[c].log) :
               Discreet(calls[c].log[i], client.v.credential, calls[c].signing.v.signature)

\* the client with its debug flag the other way round
OtherDebug(self) == [self EXCEPT !.debug = ~@]

\* the request call_action builds for a client, given the body and the timestamp
RequestOf(self, body, timestamp, signing) ==
    [url |-> Url(self),
     headers |-> Insert(build_headers(self, ACTION_CHAT_COMPLETIONS, body, timestamp),
                        "Authorization",
                        Authorization(self, signing.credential_scope,
                                      signing.signed_headers, signing.signature)),
     body |-> body]

\* C6: debug logging is purely additive: with the debug flag the other way
\* round and everything else the same, the same request (URL, headers, body)
\* is sent and the same result is returned.
C6_DebugAdditive ==
    \A c \in Callers :
        /\ calls[c].pc = "authorized"
           => Post(calls[c]) =
                  RequestOf(OtherDebug(client.v), calls[c].body, calls[c].timestamp,
                            Signing(OtherDebug(client.v), calls[c].body,
                                    calls[c].timestamp))
        /\ calls[c].posts # <<>> => calls[c].posts = <<Post(calls[c])>>
        /\ Received(c)
           => calls[c].result =
                  HandleResponse(OtherDebug(client.v), calls[c].status, calls[c].text).result
        /\ (calls[c].pc = "done" /\ calls[c].posts # <<>> /\ ~Received(c))
           => calls[c].result.kind = "Http"

C6_Witness ==
    \E c \in Callers :
        /\ Received(c)
        /\ client.v.debug
        /\ Len(calls[c].log) = 6
        /\ calls[c].status = 401
        /\ calls[c].text = FlatErrorBody
        /\ calls[c].result = ServiceError("LimitExceeded", "too many", Some("r3"))

\* build has just run
BuildStep == phase = "building" /\ phase' # "building"

\* C7: build panics whenever no credential was supplied, whatever else was
\* set, and returns no Client then; every Client that exists holds a
\* credential, and no invocation runs without a Client.
C7_BuildRequiresCredential ==
    /\ [][BuildStep => /\ ~builder.credential.some => (phase' = "panicked" /\ ~client'.some)
                       /\ builder.credential.some
                          => (client'.some /\ client'.v.credential = builder.credential.v)]_vars
    /\ [](client.some => (phase = "built" /\ client.v.credential \in Credentials))
    /\ [](\A c \in Callers : calls[c].pc # "idle" => client.some)

C7_Witness ==
    /\ phase = "panicked"
    /\ ~client.some
    /\ \A c \in Callers : calls[c].pc = "idle"

\* C8: the canonical_headers string handed to tc3_sign lists exactly the
\* headers named in signed_headers, content-type then host, with the very
\* values of the Content-Type and Host headers that are sent.
C8_CanonicalHeadersMatchSent ==
    \A c \in Callers :
        calls[c].signing.some
        => /\ calls[c].signing.v.signed_headers = "content-type;host"
           /\ calls[c].signing.v.canonical_headers =
                  "content-type:" \o calls[c].headers["Content-Type"] \o "\n"
                  \o "host:" \o calls[c].headers["Host"] \o "\n"
           /\ calls[c].posts # <<>>
              => calls[c].signing.v.canonical_headers =
                     "content-type:" \o calls[c].posts[1].headers["Content-Type"] \o "\n"
                     \o "host:" \o calls[c].posts[1].headers["Host"] \o "\n"

C8_Witness ==
    \E c \in Callers :
        /\ calls[c].posts # <<>>
        /\ calls[c].posts[1].headers["Host"] = "custom.endpoint.com"
        /\ calls[c].signing.v.canonical_headers =
               "content-type:application/json; charset=utf-8\nhost:custom.endpoint.com\n"

\* the UTC calendar date of each reading of the clock
UtcDate(timestamp) ==
    CASE 1709164800 <= timestamp /\ timestamp < 1709251200 -> "2024-02-29"
      [] 1709251200 <= timestamp /\ timestamp < 1709337600 -> "2024-03-01"

\* s starts with prefix
StartsWith(s, prefix) == Len(s) >= Len(prefix) /\ SubSeq(s, 1, Len(prefix)) = prefix

\* everything tc3_sign produced derives from the one timestamp
SignedAt(signing, timestamp) ==
    /\ signing.timestamp = timestamp
    /\ signing.date = UtcDate(timestamp)
    /\ signing.credential_scope = UtcDate(timestamp) \o "/hunyuan/tc3_request"
    /\ StartsWith(signing.string_to_sign,
                  "TC3-HMAC-SHA256\n" \o ToString(timestamp) \o "\n"
                  \o UtcDate(timestamp) \o "/hunyuan/tc3_request\n")

\* C9: within one invocation the clock is read once, and the X-TC-Timestamp
\* header, the timestamp line of the string to sign and the date of the
\* credential scope (in the signing key and in the Authorization header) all
\* derive from that one reading, even when the date changes during the call.
C9_OneTimestamp ==
    \A c \in Callers :
        /\ calls[c].clock_reads <= 1
        /\ calls[c].clock_reads = 1 => calls[c].timestamp \in {ClockTime(n) : n \in 0..now}
        /\ "X-TC-Timestamp" \in DOMAIN calls[c].headers
           => calls[c].headers["X-TC-Timestamp"] = ToString(calls[c].timestamp)
        /\ calls[c].signing.some => SignedAt(calls[c].signing.v, calls[c].timestamp)
        /\ calls[c].pc = "signed"
           => calls[c].signing.v.signature =
                  SignatureOf(client.v, UtcDate(calls[c].timestamp),
                              calls[c].signing.v.string_to_sign)
        /\ "Authorization" \in DOMAIN calls[c].headers
           => StartsWith(calls[c].headers["Authorization"],
                         "TC3-HMAC-SHA256 Credential=" \o client.v.credential.secret_id
                         \o "/" \o UtcDate(calls[c].timestamp) \o "/hunyuan/tc3_request,")

C9_Witness ==
    \E c \in Callers :
        /\ calls[c].pc = "sent"
        /\ now = 1
        /\ calls[c].timestamp = ClockStart
        /\ calls[c].posts[1].headers["X-TC-Timestamp"] = "1709251199"
        /\ calls[c].signing.v.date = "2024-02-29"

\* a step of caller c that sends a request
SendStep(c) == Len(calls'[c].posts) > Len(calls[c].posts)

\* C10: an invocation issues at most one POST: a failure to send or to read
\* the body is returned as the transport error with no further send, and no
\* response, whatever its status or body, makes the request be sent again.
C10_AtMostOnePost ==
    /\ [](\A c \in Callers :
            /\ Len(calls[c].posts) <= 1
            /\ (calls[c].posts # <<>> /\ ~calls[c].response.some)
               => (calls[c].pc = "done" /\ calls[c].result = HttpError("connect"))
            /\ (calls[c].response.some /\ ~calls[c].response.v.read /\ calls[c].pc # "sent")
               => (calls[c].pc = "done" /\ calls[c].result = HttpError("body")))
    /\ [][\A c \in Callers :
            /\ SendStep(c) => (calls[c].pc = "authorized" /\ calls[c].posts = <<>>)
            /\ calls[c].pc = "done" => ~SendStep(c)]_vars

C10_Witness ==
    \E c \in Callers :
        /\ calls[c].pc = "done"
        /\ Len(calls[c].posts) = 1
        /\ calls[c].result = HttpError("body")
        /\ calls[c].status = 500

\* what the invocation of c has built, signed and returned, recomputed from its
\* own request, its own timestamp and its own transport response alone
OwnDataOnly(c) ==
    /\ calls[c].pc \notin {"idle", "done"}
       => calls[c].body = ToJsonString(calls[c].req.v).val
    /\ calls[c].pc = "stamped"
       => calls[c].headers = build_headers(client.v, ACTION_CHAT_COMPLETIONS,
                                           calls[c].body, calls[c].timestamp)
    /\ calls[c].pc = "signed"
       => calls[c].signing.v = Signing(client.v, calls[c].body, calls[c].timestamp)
    /\ calls[c].pc = "authorized"
       => Post(calls[c]) = RequestOf(client.v, calls[c].body, calls[c].timestamp,
                                     calls[c].signing.v)
    /\ calls[c].posts # <<>> => calls[c].posts = <<Post(calls[c])>>
    /\ calls[c].response.some /\ calls[c].pc # "sent"
       => calls[c].status = calls[c].response.v.status
    /\ Received(c)
       => /\ calls[c].text = calls[c].response.v.body
          /\ calls[c].result =
                 HandleResponse(client.v, calls[c].status, calls[c].text).result

\* C11: concurrent invocations through a Client and its clone share no
\* mutable state: under every interleaving each call's headers, signature and
\* result are those its own request, timestamp and transport response
\* determine, a step of one call leaves the other call's locals alone, and
\* the client's credential, region, endpoint and debug flag never change.
C11_ClonesIndependent ==
    /\ [](\A c \in Clones : OwnDataOnly(c))
    /\ [][/\ client' = client
          /\ \A c \in Clones :
                calls'[c] # calls[c] => \A d \in Clones \ {c} : calls'[d] = calls[d]]_vars

\* both invocations were in flight together, at different timestamps, and
\* each returned the result of its own response
C11_Witness ==
    /\ Received("c1")
    /\ Received("c2")
    /\ calls["c1"].timestamp = ClockTime(1)
    /\ calls["c2"].timestamp = ClockTime(0)
    /\ calls["c1"].result.kind = "Ok"
    /\ calls["c2"].result = ServiceError("LimitExceeded", "too many", Some("r3"))
    /\ calls["c1"].posts[1].headers["X-TC-Timestamp"] = "1709251200"
    /\ calls["c2"].posts[1].headers["X-TC-Timestamp"] = "1709251199"


\* the names of the headers every request carries
CommonNames ==
    {"Host", "Content-Type", "X-TC-Action", "X-TC-Version", "X-TC-Region", "X-TC-Timestamp"}

\* the region string of the regions the builder is given here
RegionString(region) ==
    CASE region.tag = "ApGuangzhou" -> "ap-guangzhou"
      [] region.tag = "ApBeijing"   -> "ap-beijing"
      [] region.tag = "Custom"      -> region.s

\* the headers are the six common ones with the values the claim lists
CommonHeaders(headers, self, action, timestamp) ==
    /\ CommonNames \subseteq DOMAIN headers
    /\ headers["Host"] = self.endpoint
    /\ headers["Content-Type"] = "application/json; charset=utf-8"
    /\ headers["X-TC-Action"] = action
    /\ headers["X-TC-Version"] = "2023-09-01"
    /\ headers["X-TC-Region"] = RegionString(self.region)
    /\ headers["X-TC-Timestamp"] = ToString(timestamp)

\* the same client with another token
WithToken(self, token) == [self EXCEPT !.credential.token = token]

\* C12: build_headers returns an X-TC-Token header if and only if the
\* credential has a token, its value is that token, and the other headers
\* (Host, Content-Type, X-TC-Action, X-TC-Version, X-TC-Region,
\* X-TC-Timestamp) are the same with or without a token.
C12_TokenHeader ==
    \A c \in Callers :
        /\ calls[c].pc = "stamped"
           => /\ "X-TC-Token" \in DOMAIN calls[c].headers <=> client.v.credential.token.some
              /\ client.v.credential.token.some
                 => calls[c].headers["X-TC-Token"] = client.v.credential.token.v
              /\ DOMAIN calls[c].headers \ {"X-TC-Token"} = CommonNames
              /\ CommonHeaders(calls[c].headers, client.v, "ChatCompletions",
                               calls[c].timestamp)
              /\ \A token \in {None, Some("test_token"), Some("")} :
                    \A n \in CommonNames :
                        build_headers(WithToken(client.v, token), "ChatCompletions",
                                      calls[c].body, calls[c].timestamp)[n]
                        = calls[c].headers[n]
        /\ calls[c].posts # <<>>
           => /\ "X-TC-Token" \in DOMAIN calls[c].posts[1].headers
                 <=> client.v.credential.token.some
              /\ CommonHeaders(calls[c].posts[1].headers, client.v, "ChatCompletions",
                               calls[c].timestamp)

C12_Witness ==
    \E c \in Callers :
        /\ calls[c].pc = "stamped"
        /\ client.v.credential.token = Some("test_token")
        /\ calls[c].headers["X-TC-Token"] = "test_token"
        /\ calls[c].headers["X-TC-Region"] = "us-west-1"
        /\ calls[c].headers["Host"] = "hunyuan.tencentcloudapi.com"
        /\ calls[c].headers["X-TC-Timestamp"] = "1709251200"


\* what build makes the debug flag, given the values for which the
\* environment flag counts as set
DebugFlagBuilt(truthy) ==
    (BuildStep /\ builder.credential.some)
    => client'.v.debug = IF builder.debug.some THEN builder.debug.v
                         ELSE env_debug \in { Some(v) : v \in truthy }

\* C13 as stated: without an explicit value the flag is true for the values
\* true, 1 or on of the environment variable and false when it is unset or
\* has any other value.
C13_DebugPrecedenceAsStated == [][DebugFlagBuilt({"true", "1", "on"})]_vars

\* C13: the built client's debug flag is the value passed to
\* ClientBuilder::debug whenever one was passed, whatever the environment
\* variable is; only without an explicit value is it the environment flag,
\* which is true for the values 1, true, TRUE, on and ON and false when the
\* variable is unset or has any other value.
C13_DebugPrecedence == [][DebugFlagBuilt({"1", "true", "TRUE", "on", "ON"})]_vars

\* debug(false) was called and the variable says true: the flag is false
C13_Witness ==
    /\ phase = "built"
    /\ env_debug = Some("true")
    /\ ~client.v.debug


\* the UTC calendar date of the timestamps tc3_sign is given
CalendarDate(timestamp) ==
    CASE timestamp \in {0, 86399}   -> "1970-01-01"
      [] timestamp = 86400          -> "1970-01-02"
      [] timestamp = 68169600       -> "1972-02-29"
      [] timestamp = 946598400      -> "1999-12-31"
      [] timestamp = 951782400      -> "2000-02-29"
      [] timestamp = 951868800      -> "2000-03-01"
      [] timestamp = 1234567890     -> "2009-02-13"
      [] timestamp = 1286668800     -> "2010-10-10"
      [] timestamp = 1709251199     -> "2024-02-29"
      [] timestamp = 1709251200     -> "2024-03-01"
      [] timestamp = 1735689599     -> "2024-12-31"
      [] timestamp = 1735689600     -> "2025-01-01"
      [] timestamp = 2147483647     -> "2038-01-19"

\* s is four digits, a dash, two digits, a dash, two digits
IsDateForm(s) ==
    /\ Len(s) = 10
    /\ \A i \in {1, 2, 3, 4, 6, 7, 9, 10} : IsDigit(CharAt(s, i))
    /\ CharAt(s, 5) = "-"
    /\ CharAt(s, 8) = "-"

\* C14: for every timestamp and every secret key the credential_scope
\* tc3_sign returns is <date>/hunyuan/tc3_request, the date being the
\* zero-padded YYYY-MM-DD UTC calendar date of the timestamp argument,
\* whatever the secret key, the canonical request and the wall clock are.
C14_ScopeDate ==
    \A c \in Callers :
        calls[c].signing.some
        => /\ calls[c].signing.v.credential_scope =
                  CalendarDate(calls[c].timestamp) \o "/hunyuan/tc3_request"
           /\ IsDateForm(SubSeq(calls[c].signing.v.credential_scope, 1, 10))
           /\ Len(calls[c].signing.v.credential_scope) = 10 + Len("/hunyuan/tc3_request")

\* tc3_sign was given a timestamp of a day with a one-digit month and day,
\* years away from the wall clock's date
C14_Witness ==
    \E c \in Callers :
        /\ calls[c].signing.some
        /\ calls[c].timestamp = 951868800
        /\ now = 1
        /\ client.v.credential.secret_key = "another_key"
        /\ calls[c].signing.v.credential_scope = "2000-03-01/hunyuan/tc3_request"


\* the order of the steps of one invocation
StepOrder ==
    { <<"idle", "serialized">>, <<"idle", "done">>, <<"serialized", "stamped">>,
      <<"stamped", "signed">>, <<"signed", "authorized">>, <<"authorized", "sent">>,
      <<"authorized", "done">>, <<"sent", "received">>, <<"sent", "done">>,
      <<"received", "done">>, <<"done", "idle">> }

\* the Authorization value made of a scope, the signed headers and a signature
AuthorizationValue(secret_id, credential_scope, signed_headers, signature) ==
    "TC3-HMAC-SHA256 Credential=" \o secret_id \o "/" \o credential_scope
    \o ", SignedHeaders=" \o signed_headers \o ", Signature=" \o signature

\* the signature of signing was computed over the hash of body
SignedOverBody(self, signing, body) ==
    /\ signing.hashed_payload = sha256_hex(body)
    /\ signing.string_to_sign =
           "TC3-HMAC-SHA256\n" \o ToString(signing.timestamp) \o "\n"
           \o signing.credential_scope \o "\n"
           \o sha256_hex("POST\n/\n\n" \o signing.canonical_headers \o "\n"
                         \o signing.signed_headers \o "\n" \o sha256_hex(body))
    /\ signing.signature = SignatureOf(self, signing.date, signing.string_to_sign)

\* C15: an invocation proceeds in the order serialize, capture timestamp,
\* sign, build Authorization, send, decode; when serializing the request
\* fails the call returns a serialization error and no HTTP request is ever
\* sent; every request that is sent carries the Authorization header whose
\* signature was computed over the hash of exactly the body being sent (the
\* signature is compared when the request is complete, and neither it nor the
\* body changes from then on).
C15_StepOrder ==
    /\ [](\A c \in Callers :
            /\ (calls[c].req.some /\ ~ToJsonString(calls[c].req.v).ok)
               => /\ calls[c].pc = "done"
                  /\ calls[c].result = SerdeError
                  /\ calls[c].posts = <<>>
                  /\ ~calls[c].response.some
            /\ calls[c].pc = "authorized"
               => SignedOverBody(client.v, calls[c].signing.v, calls[c].body)
            /\ calls[c].posts # <<>>
               => /\ calls[c].posts[1].body = calls[c].body
                  /\ calls[c].body = ToJsonString(calls[c].req.v).val
                  /\ calls[c].signing.some
                  /\ "Authorization" \in DOMAIN calls[c].posts[1].headers
                  /\ calls[c].posts[1].headers["Authorization"] =
                         AuthorizationValue(client.v.credential.secret_id,
                                            calls[c].signing.v.credential_scope,
                                            calls[c].signing.v.signed_headers,
                                            calls[c].signing.v.signature))
    /\ [][\A c \in Callers :
            /\ calls'[c].pc # calls[c].pc => <<calls[c].pc, calls'[c].pc>> \in StepOrder
            /\ calls[c].pc \in {"signed", "authorized", "sent", "received"}
               => (calls'[c].signing = calls[c].signing /\ calls'[c].body = calls[c].body)
            /\ SendStep(c)
               => /\ calls[c].pc = "authorized"
                  /\ calls[c].clock_reads = 1
                  /\ calls'[c].posts = <<Post(calls[c])>>]_vars

\* a request has been sent, with the Authorization header of its signature
C15_Witness ==
    \E c \in Callers :
        /\ calls[c].pc = "sent"
        /\ calls[c].req = Some(HelloRequest)
        /\ Len(calls[c].posts) = 1
        /\ calls[c].posts[1].body = calls[c].body
        /\ StartsWith(calls[c].posts[1].headers["Authorization"],
                      "TC3-HMAC-SHA256 Credential=test_id/2024-03-01/hunyuan/tc3_request, SignedHeaders=content-type;host, Signature=")
        /\ calls[c].signing.v.hashed_payload = sha256_hex(calls[c].body)


\* what the wrapped error body decodes to as ChatCompletionsResponse
WrappedErrorAsResponse ==
    [response |-> [request_id |-> Some("r2"), id |-> None, choices |-> None,
                   usage |-> None]]

\* C16: error detection depends on the HTTP status alone: a 2xx response
\* whose body is {"Response":{"Error":{"Code":c,"Message":m},"RequestId":r}}
\* is returned as Ok with request_id = r and id, choices and usage absent,
\* never as a service error, and the vendor's code and message appear nowhere
\* in the result; a service error is returned for non-2xx statuses only.
C16_StatusAloneDecides ==
    \A c \in Callers :
        Received(c)
        => /\ calls[c].result.kind = "Service" <=> NonSuccess(calls[c].status)
           /\ (~NonSuccess(calls[c].status) /\ calls[c].text = WrappedErrorBody)
              => /\ calls[c].result = OkResult(WrappedErrorAsResponse)
                 /\ DOMAIN calls[c].result = {"kind", "value"}
                 /\ DOMAIN calls[c].result.value.response =
                        {"request_id", "id", "choices", "usage"}
                 /\ ~calls[c].envelope_decoded

C16_Witness ==
    \E c \in Callers :
        /\ Received(c)
        /\ calls[c].status = 200
        /\ calls[c].text = WrappedErrorBody
        /\ calls[c].result.kind = "Ok"
        /\ calls[c].result.value.response.request_id = Some("r2")
        /\ calls[c].result.value.response.choices = None

====
